---- MODULE Spec2Model ----
(***************************************************************************)
(* HeartGuard AI (src/app.py): a Streamlit script that loads a pickled     *)
(* classifier once per process, shows a five-widget form and, on a button  *)
(* press, predicts and renders one of two result cards.                    *)
(*                                                                         *)
(* Streamlit runs the whole script top to bottom for every interaction of  *)
(* a browser session; st.cache_resource keeps load_model's return value    *)
(* for the process and shares it between sessions.  A script run is        *)
(* modelled step by step (pc), so that runs of different sessions          *)
(* interleave.  Styling, the sidebar, the two header lines and the         *)
(* progress-bar animation render no data and are left out of the page.     *)
(* A session interacts when its previous run has ended; the classifier is  *)
(* taken to be deterministic and unchanged by predict and predict_proba.   *)
(*                                                                         *)
(* Numbers: oldpeak is kept in tenths (1.0 is 10, the widget's step is     *)
(* 0.1); a probability is kept in units of 1/ProbScale; confidence, which  *)
(* is np.max(proba) * 100, is therefore in units of 1/ProbScale percent.   *)
(***************************************************************************)
EXTENDS Integers, Sequences, FiniteSets, TLC

\* ------------------------------------------------------------- bounds
\* Browser sessions served by the one process.
NumSessions == 2
\* Cap on the count of times the artifact file is opened.
MaxOpens == 3

Sessions == 1..NumSessions

\* ------------------------------------------------- program constants
ThalachMin == 60
ThalachMax == 220
ThalachDefault == 150
OldpeakMin == 0
OldpeakMax == 100
OldpeakDefault == 10
ProbScale == 1000

\* The options of the three selectboxes.
cp_options == 0..3
thal_options == 1..3
ca_options == 0..4

\* The values each widget can be set to, one session being explored in
\* breadth: every option of the selectboxes, and for the slider and the
\* number input the two ends, the default and one value in between.
WidgetDomain ==
    [cp_display   |-> cp_options,
     thal_display |-> thal_options,
     ca           |-> ca_options,
     thalach      |-> {ThalachMin, 90, ThalachDefault, ThalachMax},
     oldpeak      |-> {OldpeakMin, OldpeakDefault, 42, OldpeakMax}]

\* The values explored when several sessions run side by side.
SharedDomain ==
    [ca |-> {0, 3}]

\* What the widgets show on a session's first run: a selectbox starts on
\* its first option, the slider and the number input on value=.
WidgetDefaults ==
    [cp_display   |-> 0,
     thal_display |-> 1,
     ca           |-> 0,
     thalach      |-> ThalachDefault,
     oldpeak      |-> OldpeakDefault]

\* ------------------------------------------------- the model artifact
\* heart_disease_model.pkl is opaque to the script: whatever object it
\* unpickles to is used through predict and predict_proba.  Four kinds of
\* artifact stand for what those two calls can do.
\*   logreg      labels in {0,1}, predict_proba supported
\*   svc         labels in {0,1}, no predict_proba (AttributeError)
\*   multiclass  a third label, 2, on some inputs; predict_proba supported
\*   mismatch    trained on another feature count: predict raises
Classifiers == {"logreg", "svc", "multiclass", "mismatch"}

\* The file on disk: absent, present but not unpicklable, or an artifact.
FileStates == {"absent", "corrupt"} \cup Classifiers

Min(a, b) == IF a < b THEN a ELSE b
Max(a, b) == IF a > b THEN a ELSE b

RECURSIVE SeqMax(_)
SeqMax(q) == IF Len(q) = 1 THEN q[1] ELSE Max(q[1], SeqMax(Tail(q)))

\* np.max over a 2-d array: the largest entry of any row.
RECURSIVE NpMax(_)
NpMax(rows) ==
    IF Len(rows) = 1 THEN SeqMax(rows[1])
    ELSE Max(SeqMax(rows[1]), NpMax(Tail(rows)))

\* Probability of class 1 that the stand-in artifacts give a row
\* [cp, thal, ca, thalach, oldpeak].
P1(row) == Min(ProbScale, 25 + 25 * row[1] + 200 * row[3] + 10 * row[5])

\* model.predict(input_data): [ok, value], value the array of labels.
ModelPredict(m, X) ==
    LET bin == IF P1(X[1]) > ProbScale - P1(X[1]) THEN 1 ELSE 0
    IN  CASE m \in {"logreg", "svc"} -> [ok |-> TRUE, value |-> <<bin>>]
          [] m = "multiclass" ->
               [ok |-> TRUE, value |-> <<IF X[1][1] = 3 THEN 2 ELSE bin>>]
          [] OTHER -> [ok |-> FALSE, value |-> <<>>]

\* model.predict_proba(input_data): [ok, value], value one row of class
\* probabilities.
ModelPredictProba(m, X) ==
    LET p == P1(X[1])
    IN  CASE m = "logreg" -> [ok |-> TRUE, value |-> <<<<ProbScale - p, p>>>>]
          [] m = "multiclass" ->
               [ok |-> TRUE,
                value |-> IF X[1][1] = 3
                          THEN <<<<100, 100, ProbScale - 200>>>>
                          ELSE <<<<ProbScale - p, p, 0>>>>]
          [] OTHER -> [ok |-> FALSE, value |-> <<>>]

\* ------------------------------------------------------ page elements
\* What the script can put on the page, named by the call and its text.
NotFoundError == "error:Model file not found"
WaitingInfo == "info:Awaiting model file..."
Form == "form"
Button == "button:Analyze Risk Profile"
Rule == "hr"
HighRiskCard == "card:HIGH RISK DETECTED"
LowRiskCard == "card:LOW RISK / HEALTHY"
Balloons == "balloons"
LoadException == "exception:load_model"
PredictException == "exception:predict"

\* --------------------------------------------------------------- state
VARIABLES
    file,        \* heart_disease_model.pkl on disk
    cache,       \* st.cache_resource's entry for load_model
    opens,       \* times load_model's body opened the file
    pc,          \* each session's place in its script run
    pressed,     \* whether the run was started by the button
    widgets,     \* each session's widget values
    model,       \* the script's variable model
    input_data,  \* the script's variable input_data
    prediction,  \* the script's variable prediction
    confidence,  \* the script's variable confidence
    calls,       \* the classifier calls of the run, in order
    out          \* the page: the elements the run rendered, in order

vars == <<file, cache, opens, pc, pressed, widgets, model, input_data,
          prediction, confidence, calls, out>>

\* A script variable that no statement has assigned yet is <<>>; an
\* assigned one is <<value>>.
Unbound == <<>>

Init ==
    /\ file \in FileStates
    /\ cache = [set |-> FALSE, value |-> "None"]
    /\ opens = 0
    /\ pc = [s \in Sessions |-> "Idle"]
    /\ pressed = [s \in Sessions |-> FALSE]
    /\ widgets = [s \in Sessions |-> WidgetDefaults]
    /\ model = [s \in Sessions |-> Unbound]
    /\ input_data = [s \in Sessions |-> Unbound]
    /\ prediction = [s \in Sessions |-> Unbound]
    /\ confidence = [s \in Sessions |-> Unbound]
    /\ calls = [s \in Sessions |-> <<>>]
    /\ out = [s \in Sessions |-> <<>>]

Shows(s, e) == \E i \in 1..Len(out[s]) : out[s][i] = e

\* No script of the session is running.
AtRest(s) == pc[s] \in {"Idle", "ResultReady", "Error"}

\* ------------------------------------------------------- load_model
\* The body of load_model on a file state: what it returns or raises and
\* the element it renders.  Only FileNotFoundError is caught.
load_model(f) ==
    CASE f = "absent" ->
           [raised |-> FALSE, value |-> "None",
            elements |-> <<NotFoundError>>]
      [] f = "corrupt" ->
           [raised |-> TRUE, value |-> "None", elements |-> <<>>]
      [] OTHER ->
           [raised |-> FALSE, value |-> f, elements |-> <<>>]

\* load_model without its decorator: the body runs on every call.
CacheNever == FALSE

\* st.cache_resource: a stored return value is served without running
\* the body.
CacheHit == cache.set

\* What st.cache_resource holds after the body ran: a return value is
\* stored, None included, together with the elements the body rendered;
\* a raised exception stores nothing.
CacheStore(r) ==
    IF r.raised THEN cache ELSE [set |-> TRUE, value |-> r.value]

\* The elements replayed when the stored value is served.
CachedElements(v) ==
    IF v = "None" THEN load_model("absent").elements ELSE <<>>

\* The test of line 143 dropped: the form is shown whatever model is.
TruthyAlways(m) == TRUE

\* `if model:` on line 143.
Truthy(m) == m # "None"

\* ------------------------------------------------------ the script run
\* Results kept from run to run, as a list in st.session_state would be.
PageKept(old) == old

\* The page at the start of a run: Streamlit renders each run afresh.
PageAtRunStart(old) == <<>>

\* A run starts: the script's namespace is new.
StartRun(s, button) ==
    /\ pc' = [pc EXCEPT ![s] = "Load"]
    /\ pressed' = [pressed EXCEPT ![s] = button]
    /\ model' = [model EXCEPT ![s] = Unbound]
    /\ input_data' = [input_data EXCEPT ![s] = Unbound]
    /\ prediction' = [prediction EXCEPT ![s] = Unbound]
    /\ confidence' = [confidence EXCEPT ![s] = Unbound]
    /\ calls' = [calls EXCEPT ![s] = <<>>]
    /\ out' = [out EXCEPT ![s] = PageAtRunStart(out[s])]

\* The session opens or reloads the page.
PageLoad(s) ==
    /\ AtRest(s)
    /\ StartRun(s, FALSE)
    /\ UNCHANGED <<file, cache, opens, widgets>>

\* The user sets one widget of the form to another value.
ChangeWidget(s, Dom) ==
    /\ AtRest(s)
    /\ Shows(s, Form)
    /\ \E f \in DOMAIN Dom : \E v \in Dom[f] \ {widgets[s][f]} :
           widgets' = [widgets EXCEPT ![s][f] = v]
    /\ StartRun(s, FALSE)
    /\ UNCHANGED <<file, cache, opens>>

\* The user presses "Analyze Risk Profile".
PressButton(s) ==
    /\ AtRest(s)
    /\ Shows(s, Button)
    /\ StartRun(s, TRUE)
    /\ UNCHANGED <<file, cache, opens, widgets>>

\* model = load_model(), under st.cache_resource.
LoadModel(s) ==
    /\ pc[s] = "Load"
    /\ IF CacheHit
       THEN /\ model' = [model EXCEPT ![s] = <<cache.value>>]
            /\ out' = [out EXCEPT ![s] = @ \o CachedElements(cache.value)]
            /\ pc' = [pc EXCEPT ![s] = "Main"]
            /\ UNCHANGED <<cache, opens>>
       ELSE LET r == load_model(file)
            IN  /\ opens < MaxOpens
                /\ opens' = opens + 1
                /\ cache' = CacheStore(r)
                /\ IF r.raised
                   THEN /\ pc' = [pc EXCEPT ![s] = "Error"]
                        /\ out' = [out EXCEPT ![s] =
                                     Append(@, LoadException)]
                        /\ UNCHANGED model
                   ELSE /\ pc' = [pc EXCEPT ![s] = "Main"]
                        /\ out' = [out EXCEPT ![s] = @ \o r.elements]
                        /\ model' = [model EXCEPT ![s] = <<r.value>>]
    /\ UNCHANGED <<file, pressed, widgets, input_data, prediction,
                   confidence, calls>>

\* Section 5: the form and the button, or the waiting notice.
MainInterface(s) ==
    /\ pc[s] = "Main"
    /\ IF Truthy(model[s][1])
       THEN /\ out' = [out EXCEPT ![s] =
                         @ \o <<Form, Button>>]
            /\ pc' = [pc EXCEPT ![s] =
                        IF pressed[s] THEN "Encoding" ELSE "Idle"]
       ELSE /\ out' = [out EXCEPT ![s] =
                         Append(@, WaitingInfo)]
            /\ pc' = [pc EXCEPT ![s] = "Idle"]
    /\ UNCHANGED <<file, cache, opens, pressed, widgets, model, input_data,
                   prediction, confidence, calls>>

\* The vector in the order of the widgets on the page, not of training.
InputDataPageOrder(w) ==
    <<<<w.cp_display, w.thalach, w.oldpeak, w.thal_display, w.ca>>>>

\* input_data = [[cp_display, thal_display, ca, thalach, oldpeak]]
InputData(w) ==
    <<<<w.cp_display, w.thal_display, w.ca, w.thalach, w.oldpeak>>>>

Encode(s) ==
    /\ pc[s] = "Encoding"
    /\ input_data' = [input_data EXCEPT ![s] = <<InputData(widgets[s])>>]
    /\ pc' = [pc EXCEPT ![s] = "Predicting"]
    /\ UNCHANGED <<file, cache, opens, pressed, widgets, model, prediction,
                   confidence, calls, out>>

Call(op, X) == [op |-> op, arg |-> X]

\* predict wrapped in the same bare except as predict_proba.
AfterPredictSwallowed(ok) == "Estimating"

\* Where the run goes after model.predict returned (ok) or raised.
AfterPredict(ok) == IF ok THEN "Estimating" ELSE "Error"

\* prediction = model.predict(input_data); an exception ends the run.
Predict(s) ==
    /\ pc[s] = "Predicting"
    /\ LET r == ModelPredict(model[s][1], input_data[s][1])
       IN  /\ calls' = [calls EXCEPT ![s] =
                          Append(@, Call("predict", input_data[s][1]))]
           /\ pc' = [pc EXCEPT ![s] = AfterPredict(r.ok)]
           /\ IF r.ok
              THEN /\ prediction' = [prediction EXCEPT ![s] = <<r.value>>]
                   /\ UNCHANGED out
              ELSE /\ out' = [out EXCEPT ![s] =
                                Append(@, PredictException)]
                   /\ UNCHANGED prediction
    /\ UNCHANGED <<file, cache, opens, pressed, widgets, model, input_data,
                   confidence>>

\* The fallback of the except clause set to full confidence.
ConfidenceOfCertain(r) == IF r.ok THEN NpMax(r.value) * 100 ELSE 100 * ProbScale

\* The value of confidence after the try statement, r being what
\* predict_proba did.
ConfidenceOf(r) == IF r.ok THEN NpMax(r.value) * 100 ELSE 0

\* try: proba = model.predict_proba(input_data) ... except: confidence = 0
Estimate(s) ==
    /\ pc[s] = "Estimating"
    /\ calls' = [calls EXCEPT ![s] =
                   Append(@, Call("predict_proba", input_data[s][1]))]
    /\ confidence' = [confidence EXCEPT ![s] =
          <<ConfidenceOf(ModelPredictProba(model[s][1], input_data[s][1]))>>]
    /\ pc' = [pc EXCEPT ![s] = "Rendering"]
    /\ UNCHANGED <<file, cache, opens, pressed, widgets, model, input_data,
                   prediction, out>>

TwoDigits(n) == ToString(n \div 10) \o ToString(n % 10)

\* f"{confidence:.2f}%": rounded to hundredths of a percent.
FormatConfidence(c) ==
    LET unit == ProbScale \div 100
        h == (c + unit \div 2) \div unit
    IN  ToString(h \div 100) \o "." \o TwoDigits(h % 100) \o "%"

ConfidenceLine(c) ==
    IF c > 0
    THEN <<"write:Model Confidence: " \o FormatConfidence(c)>>
    ELSE <<>>

\* The test of line 208 written against the healthy label.
ResultElementsInverted(result, c) ==
    IF result = 0
    THEN <<HighRiskCard>> \o ConfidenceLine(c)
    ELSE <<LowRiskCard, Balloons>> \o ConfidenceLine(c)

\* Lines 208-233: the card for the label, then the confidence line.
ResultElements(result, c) ==
    IF result = 1
    THEN <<HighRiskCard>> \o ConfidenceLine(c)
    ELSE <<LowRiskCard, Balloons>> \o ConfidenceLine(c)

\* result = prediction[0]
Result(s) == prediction[s][1][1]

Render(s) ==
    /\ pc[s] = "Rendering"
    /\ out' = [out EXCEPT ![s] =
                 @ \o <<Rule>>
                   \o ResultElements(Result(s), confidence[s][1])]
    /\ pc' = [pc EXCEPT ![s] = "ResultReady"]
    /\ UNCHANGED <<file, cache, opens, pressed, widgets, model, input_data,
                   prediction, confidence, calls>>

\* The environment writes, replaces or removes the artifact file.
FileChange ==
    /\ \E f \in FileStates \ {file} : file' = f
    /\ UNCHANGED <<cache, opens, pc, pressed, widgets, model, input_data,
                   prediction, confidence, calls, out>>

Step(s, Dom) ==
    \/ PageLoad(s)
    \/ ChangeWidget(s, Dom)
    \/ PressButton(s)
    \/ LoadModel(s)
    \/ MainInterface(s)
    \/ Encode(s)
    \/ Predict(s)
    \/ Estimate(s)
    \/ Render(s)

\* One browser session, every widget explored.
Next == FileChange \/ Step(1, WidgetDomain)

Spec == Init /\ [][Next]_vars

\* Every session at once, their runs interleaved step by step.
NextShared == FileChange \/ \E s \in Sessions : Step(s, SharedDomain)

SpecShared == Init /\ [][NextShared]_vars

\* One session on the small domain, its script scheduled to completion:
\* Streamlit runs a started script until it ends or raises.
Run(s) ==
    \/ LoadModel(s)
    \/ MainInterface(s)
    \/ Encode(s)
    \/ Predict(s)
    \/ Estimate(s)
    \/ Render(s)

NextLive == FileChange \/ Step(1, SharedDomain)

SpecLive == Init /\ [][NextLive]_vars /\ WF_vars(Run(1))

\* ---------------------------------------------------------- properties
\* The two scenarios of the specification's section 8.
ScenarioA ==
    [cp_display |-> 0, thal_display |-> 2, ca |-> 0,
     thalach |-> 150, oldpeak |-> 10]
ScenarioB ==
    [cp_display |-> 3, thal_display |-> 1, ca |-> 3,
     thalach |-> 90, oldpeak |-> 42]

CountOf(s, e) == Cardinality({i \in 1..Len(out[s]) : out[s][i] = e})

Cards(s) == CountOf(s, HighRiskCard) + CountOf(s, LowRiskCard)

\* The elements of the page that are not fixed text: confidence lines.
FixedElements ==
    {NotFoundError, WaitingInfo, Form, Button, Rule, HighRiskCard,
     LowRiskCard, Balloons, LoadException, PredictException}
ConfidenceLines(s) ==
    {out[s][i] : i \in 1..Len(out[s])} \ FixedElements

\* load_model has reported the artifact as unavailable.
ModelUnavailable == cache.set /\ cache.value = "None"

\* C1: once load_model has returned None, no session builds a feature
\* vector or calls the classifier, the form and the button are on no page,
\* and a finished run shows the loader's notice and the waiting state only.
C1_UnavailableShowsWaitingOnly ==
    ModelUnavailable =>
        \A s \in Sessions :
            /\ input_data[s] = Unbound
            /\ calls[s] = <<>>
            /\ ~Shows(s, Form)
            /\ ~Shows(s, Button)
            /\ Cards(s) = 0
            /\ pc[s] \in {"Idle", "Load", "Main", "Error"}
            /\ model[s] # Unbound =>
                   /\ model[s] = <<"None">>
                   /\ pc[s] = "Idle" => out[s] = <<NotFoundError, WaitingInfo>>

\* A run served from the cache ended in the waiting state although a
\* readable artifact is on disk by now.
C1_Witness ==
    /\ ModelUnavailable
    /\ file \in Classifiers
    /\ pc[1] = "Idle"
    /\ out[1] = <<NotFoundError, WaitingInfo>>

\* predict_proba was called in this run and failed.
ProbaFailed(s) ==
    /\ Len(calls[s]) = 2
    /\ ~ModelPredictProba(model[s][1], calls[s][2].arg).ok

\* C2: when predict succeeded and predict_proba fails, the run goes on:
\* confidence is 0, the card of the predicted label is rendered, and the
\* page carries neither a confidence line nor an exception.
C2_ProbaFailureAbsorbed ==
    \A s \in Sessions :
        ProbaFailed(s) =>
            /\ pc[s] \in {"Rendering", "ResultReady"}
            /\ confidence[s] = <<0>>
            /\ ~Shows(s, PredictException)
            /\ pc[s] = "ResultReady" =>
                   out[s] = <<Form, Button, Rule>> \o
                            (IF Result(s) = 1
                             THEN <<HighRiskCard>>
                             ELSE <<LowRiskCard, Balloons>>)

\* Scenario B on an artifact without predict_proba: high risk, no line.
C2_Witness ==
    /\ pc[1] = "ResultReady"
    /\ model[1] = <<"svc">>
    /\ widgets[1] = ScenarioB
    /\ out[1] = <<Form, Button, Rule, HighRiskCard>>

\* C3: a finished prediction shows exactly one card: the high-risk card
\* for label 1, the low-risk card with the balloons for label 0; the
\* confidence line is there exactly when confidence is above 0, written
\* with two decimals (87.5 as 87.50%).
C3_ExactlyOneTemplate ==
    \A s \in Sessions :
        pc[s] = "ResultReady" =>
            /\ Cards(s) = 1
            /\ Result(s) = 1 =>
                   CountOf(s, HighRiskCard) = 1 /\ CountOf(s, Balloons) = 0
            /\ Result(s) = 0 =>
                   CountOf(s, LowRiskCard) = 1 /\ CountOf(s, Balloons) = 1
            /\ (ConfidenceLines(s) # {}) <=> (confidence[s][1] > 0)
            /\ Cardinality(ConfidenceLines(s)) <= 1
            /\ confidence[s][1] = 87500 =>
                   ConfidenceLines(s) = {"write:Model Confidence: 87.50%"}
            /\ confidence[s][1] = 100000 =>
                   ConfidenceLines(s) = {"write:Model Confidence: 100.00%"}

\* Scenario A: label 0 with confidence 87.5.
C3_Witness ==
    /\ pc[1] = "ResultReady"
    /\ widgets[1] = ScenarioA
    /\ Result(1) = 0
    /\ out[1] = <<Form, Button, Rule, LowRiskCard, Balloons,
                  "write:Model Confidence: 87.50%">>

\* C4: a label outside {0,1} never reaches a result: no card is rendered
\* for it and the run does not end in Result-Ready.
C4_UnexpectedLabelReported ==
    \A s \in Sessions :
        (prediction[s] # Unbound /\ Result(s) \notin {0, 1}) =>
            /\ pc[s] # "ResultReady"
            /\ Cards(s) = 0

\* C5: no exception leaves load_model: a run never ends on an exception
\* raised by the loader.
C5_LoaderNeverRaises ==
    \A s \in Sessions : ~Shows(s, LoadException)

\* C6: the artifact file is opened at most once in the life of the
\* process.
C6_OpenedAtMostOnce == opens <= 1

\* C7: every classifier call of a run gets one row of five elements,
\* [cp, thal, ca, thalach, oldpeak], each the widget's value as it is,
\* and predict_proba gets the vector predict got.
C7_VectorIsRawWidgetValues ==
    \A s \in Sessions :
        \A i \in 1..Len(calls[s]) :
            LET X == calls[s][i].arg
                w == widgets[s]
            IN  /\ Len(X) = 1
                /\ Len(X[1]) = 5
                /\ X[1][1] = w.cp_display
                /\ X[1][2] = w.thal_display
                /\ X[1][3] = w.ca
                /\ X[1][4] = w.thalach
                /\ X[1][5] = w.oldpeak
                /\ X = calls[s][1].arg

\* Both calls were made on scenario B's values.
C7_Witness ==
    /\ Len(calls[1]) = 2
    /\ calls[1][1].op = "predict"
    /\ calls[1][2].op = "predict_proba"
    /\ widgets[1] = ScenarioB

\* C8: two finished presses with the same five inputs show the same page,
\* whatever each session did before (two sessions being two histories of
\* presses against the one loaded classifier).
C8_SameInputsSamePage ==
    \A s, t \in Sessions :
        (pc[s] = "ResultReady" /\ pc[t] = "ResultReady"
            /\ widgets[s] = widgets[t]) => out[s] = out[t]

\* Two sessions finished a press on the same changed inputs.
C8_Witness ==
    /\ pc[1] = "ResultReady"
    /\ pc[2] = "ResultReady"
    /\ widgets[1] = widgets[2]
    /\ widgets[1].ca = 3
    /\ ConfidenceLines(1) # {}

\* The page of a press by a session that has the process to itself.
Alone(m, w) ==
    <<Form, Button, Rule>> \o
    ResultElements(ModelPredict(m, InputData(w)).value[1],
                   ConfidenceOf(ModelPredictProba(m, InputData(w))))

SessionsReadOneClassifier ==
    \A s \in Sessions :
        /\ model[s] # Unbound => cache.set /\ model[s] = <<cache.value>>
        /\ pc[s] = "ResultReady" => out[s] = Alone(cache.value, widgets[s])

\* C9: once stored, the cached classifier is never modified or replaced,
\* every session's script holds that one classifier, and a session whose
\* press interleaved with others shows the page it would show alone.
C9_SharedClassifierReadOnly ==
    /\ [][cache.set => cache' = cache]_vars
    /\ []SessionsReadOneClassifier

\* One session is between predict and predict_proba while the other has
\* a result on other inputs.
C9_Witness ==
    /\ pc[1] = "Estimating"
    /\ pc[2] = "ResultReady"
    /\ widgets[1] # widgets[2]
    /\ out[2] # Alone(cache.value, widgets[1])

PressOrder ==
    \A s \in Sessions :
        /\ pc[s] \in {"Predicting", "Estimating", "Rendering", "ResultReady"}
               => pressed[s] /\ input_data[s] # Unbound
        /\ calls[s] # <<>> => input_data[s] # Unbound
        /\ Len(calls[s]) <= 2
        /\ Len(calls[s]) >= 1 => calls[s][1].op = "predict"
        /\ Len(calls[s]) = 2 =>
               calls[s][2].op = "predict_proba" /\ prediction[s] # Unbound
        /\ Cards(s) > 0 =>
               /\ pc[s] = "ResultReady"
               /\ Len(calls[s]) = 2
               /\ prediction[s] # Unbound
               /\ confidence[s] # Unbound
        /\ pc[s] = "ResultReady" => Cards(s) = 1 /\ ~Shows(s, PredictException)
        /\ Shows(s, PredictException) =>
               /\ pc[s] = "Error"
               /\ Len(calls[s]) = 1
               /\ prediction[s] = Unbound
               /\ Cards(s) = 0
        /\ (AtRest(s) /\ pressed[s] /\ Shows(s, Button)) =>
               pc[s] \in {"ResultReady", "Error"}

\* C10: a press goes Encoding, Predicting, then Result-Ready or Error and
\* ends: the vector is built before any call, predict comes before
\* predict_proba, no card is rendered before both are over, and a failed
\* predict ends in Error with no predict_proba call and no card.
C10_PressStateMachine ==
    /\ []PressOrder
    /\ \A s \in {1} :
           (pc[s] = "Encoding" ~> pc[s] \in {"ResultReady", "Error"})

\* A press ended in Error on predict's exception.
C10_Witness ==
    /\ pc[1] = "Error"
    /\ pressed[1]
    /\ Len(calls[1]) = 1
    /\ out[1] = <<Form, Button, PredictException>>

====
